---- MODULE Spec2Model ----
(***************************************************************************)
(* A model of src/app.py: the push-up dashboard.                           *)
(*                                                                         *)
(* The program is one linear run of main(): it reads a day x month table,  *)
(* reshapes it into a date-indexed series and derives the totals, the      *)
(* cumulative sum, the goal date and the before/after partition from it.   *)
(* A DataFrame is modelled as a record [index, columns, cells] whose cells *)
(* are keyed by POSITION <<row, column>>; a position that is not in the    *)
(* domain of cells holds a missing value (NaN).  Column and row labels are *)
(* kept apart from the cells, as pandas keeps them.  A Series is a         *)
(* sequence of records [key, value].  An exception that the code does not  *)
(* catch ends the run: pc = "error" and err names it.                      *)
(*                                                                         *)
(* pandas semantics relied on (pandas 1.x, the release line of 2021):      *)
(*   - DataFrame.stack() drops the cells that hold NaN (dropna=True);      *)
(*   - pd.to_datetime(..., format=...) raises ValueError on a string that  *)
(*     is not a date (errors="raise");                                     *)
(*   - assigning an index of the wrong length raises ValueError;           *)
(*   - idxmin()/idxmax() return the label of the FIRST extreme value and   *)
(*     raise ValueError on an empty Series;                                *)
(*   - sum() and cumsum() skip NaN.                                        *)
(***************************************************************************)
EXTENDS Integers, Sequences, FiniteSets, TLC

VARIABLES csv, df, ts, total, perMonth, perDay, progress, csum, goal_date,
          tsf, pc, err

vars == <<csv, df, ts, total, perMonth, perDay, progress, csum, goal_date,
          tsf, pc, err>>

(***************************************************************************)
(* Program constants                                                       *)
(***************************************************************************)
MONTHS ==
  <<"January", "February", "March", "April", "May", "June", "July",
    "August", "September", "October", "November", "December">>

\* df.iloc[:31]
DAYS == 31

\* range(1, 32): the stop of the range of row labels
RANGE_STOP == 32

\* year: int = 2021
YEAR == 2021

\* csum > 10000
GOAL == 10000

\* progress["Expected"] = 30.0
EXPECTED == 30

\* ts.index > "2021-08-06"
CUTOFF == [year |-> 2021, month |-> 8, day |-> 6]

\* the missing value of pandas (NaN); every count of the table is >= 0
NaN == -1

(***************************************************************************)
(* Bounds of the model                                                     *)
(***************************************************************************)
\* the largest number of named (not "Unnamed:") columns of the source
MaxSrcCols == 13

\* the largest number of data rows of the source
MaxSrcRows == 32

(***************************************************************************)
(* Sequences                                                               *)
(***************************************************************************)
RECURSIVE SumSeq(_)
SumSeq(s) == IF s = <<>> THEN 0 ELSE Head(s) + SumSeq(Tail(s))

Min2(a, b) == IF a <= b THEN a ELSE b

\* range(a, b) of Python: a, a+1, ..., b-1
PyRange(a, b) == [i \in 1..(IF b > a THEN b - a ELSE 0) |-> a + i - 1]

(***************************************************************************)
(* DataFrame                                                               *)
(***************************************************************************)
NRows(d) == Len(d.index)

NCols(d) == Len(d.columns)

At(d, r, c) == IF <<r, c>> \in DOMAIN d.cells THEN d.cells[<<r, c>>] ELSE NaN

\* the frame made of the columns at positions keep (in that order)
TakeCols(d, keep) ==
  [index   |-> d.index,
   columns |-> [j \in 1..Len(keep) |-> d.columns[keep[j]]],
   cells   |-> [p \in {q \in (1..NRows(d)) \X (1..Len(keep)) :
                        <<q[1], keep[q[2]]>> \in DOMAIN d.cells}
                  |-> d.cells[<<p[1], keep[p[2]]>>]]]

\* c.startswith("Unnamed:") over the labels read_csv gives a column without
\* a header: "Unnamed: <position>"
UnnamedLabels ==
  <<"Unnamed: 0", "Unnamed: 1", "Unnamed: 2", "Unnamed: 3", "Unnamed: 4",
    "Unnamed: 5", "Unnamed: 6", "Unnamed: 7", "Unnamed: 8", "Unnamed: 9",
    "Unnamed: 10", "Unnamed: 11", "Unnamed: 12", "Unnamed: 13",
    "Unnamed: 14", "Unnamed: 15", "Unnamed: 16", "Unnamed: 17">>

StartsWithUnnamed(c) == \E i \in DOMAIN UnnamedLabels : UnnamedLabels[i] = c

\* mutant of DropUnnamed: the result of df.drop is not kept
DropUnnamedNone(d) == d

\* df.drop(columns=[c for c in df.columns if c.startswith("Unnamed:")])
DropUnnamed(d) ==
  TakeCols(d, SelectSeq([j \in 1..NCols(d) |-> j],
                        LAMBDA j : ~StartsWithUnnamed(d.columns[j])))

\* df.iloc[:n]: the first n rows (all of them when there are fewer)
Iloc(d, n) ==
  LET m == Min2(n, NRows(d))
  IN  [index   |-> SubSeq(d.index, 1, m),
       columns |-> d.columns,
       cells   |-> [p \in {q \in DOMAIN d.cells : q[1] <= m} |-> d.cells[p]]]

\* mutant of SetIndexFits: labels of any number are accepted
SetIndexFitsAny(d, labels) == TRUE

\* df.index = labels: pandas refuses labels whose number is not the number
\* of rows (ValueError: Length mismatch)
SetIndexFits(d, labels) == Len(labels) = NRows(d)

SetIndex(d, labels) == [d EXCEPT !.index = labels]

\* dict(zip(keys, values)): zip stops at the shorter list; a key that
\* occurs twice keeps its last value
ZipDict(keys, values) ==
  LET n == Min2(Len(keys), Len(values))
  IN  [k \in {keys[i] : i \in 1..n} |->
         values[CHOOSE i \in 1..n :
                  /\ keys[i] = k
                  /\ \A j \in 1..n : keys[j] = k => j <= i]]

\* df.rename(columns=mapping): a label the mapping does not hold is kept
Rename(d, mapping) ==
  [d EXCEPT !.columns =
     [j \in 1..NCols(d) |->
        IF d.columns[j] \in DOMAIN mapping THEN mapping[d.columns[j]]
        ELSE d.columns[j]]]

\* load_data, after pd.read_csv
load_data(source) ==
  LET dropped == DropUnnamed(source)
      sliced  == Iloc(dropped, DAYS)
      labels  == PyRange(1, RANGE_STOP)
  IN  IF ~SetIndexFits(sliced, labels)
      THEN [ok |-> FALSE, error |-> "ValueError: Length mismatch",
            value |-> sliced]
      ELSE LET indexed == SetIndex(sliced, labels)
           IN  [ok |-> TRUE, error |-> "none",
                value |-> Rename(indexed, ZipDict(indexed.columns, MONTHS))]

\* .dropna(how="all", axis=1): the columns that hold at least one value
DropEmptyColumns(d) ==
  TakeCols(d, SelectSeq([j \in 1..NCols(d) |-> j],
                        LAMBDA j : \E r \in 1..NRows(d) : At(d, r, j) # NaN))

(***************************************************************************)
(* Calendar dates                                                          *)
(***************************************************************************)
IsLeap(y) == (y % 4 = 0 /\ y % 100 # 0) \/ y % 400 = 0

DaysInMonth(m, y) ==
  IF m = 2 THEN (IF IsLeap(y) THEN 29 ELSE 28)
  ELSE IF m \in {4, 6, 9, 11} THEN 30 ELSE 31

\* the order of Timestamps
DateLess(a, b) ==
  \/ a.year < b.year
  \/ a.year = b.year /\ a.month < b.month
  \/ a.year = b.year /\ a.month = b.month /\ a.day < b.day

\* %B: the number of the month a full month name stands for, 0 for a label
\* that is no month name
MonthNumber(name) ==
  IF \E m \in 1..Len(MONTHS) : MONTHS[m] = name
  THEN CHOOSE m \in 1..Len(MONTHS) : MONTHS[m] = name
  ELSE 0

\* whether "{day}/{month}/{year}" is a date under the format "%d/%B/%Y"
IsDate(day, month, year) ==
  /\ MonthNumber(month) # 0
  /\ day >= 1
  /\ day <= DaysInMonth(MonthNumber(month), year)

\* to_datetime of as_time_series: pd.to_datetime(f"{day}/{month}/{year}",
\* format="%d/%B/%Y"), defined where IsDate holds (it raises elsewhere)
to_datetime(day_month, year) ==
  [year |-> year, month |-> MonthNumber(day_month[2]), day |-> day_month[1]]

\* strftime("%B %-dth")
Strftime(date) == <<MONTHS[date.month], date.day, "th">>

(***************************************************************************)
(* as_time_series                                                          *)
(***************************************************************************)
\* mutant of Stack: stack(dropna=False), the cells that hold NaN are kept
StackKeepNa(d) ==
  LET C == NCols(d)
  IN  [p \in 1..(NRows(d) * C) |->
         LET r == ((p - 1) \div C) + 1
             c == ((p - 1) % C) + 1
         IN  [key |-> <<d.index[r], d.columns[c]>>, value |-> At(d, r, c)]]

\* df.stack(): the cells in row-major order, each keyed by its
\* (row label, column label); the cells that hold NaN are dropped
Stack(d) ==
  LET C   == NCols(d)
      all == [p \in 1..(NRows(d) * C) |->
                LET r == ((p - 1) \div C) + 1
                    c == ((p - 1) % C) + 1
                IN  [key |-> <<d.index[r], d.columns[c]>>,
                     value |-> At(d, r, c)]]
  IN  SelectSeq(all, LAMBDA e : e.value # NaN)

\* insertion of e into a series sorted by key
RECURSIVE InsertByKey(_, _)
InsertByKey(e, s) ==
  IF s = <<>> THEN <<e>>
  ELSE IF DateLess(e.key, Head(s).key) THEN <<e>> \o s
  ELSE <<Head(s)>> \o InsertByKey(e, Tail(s))

\* mutant of SortIndex: the series is returned as stacked
SortIndexNone(s) == s

\* Series.sort_index(): ascending by key
RECURSIVE SortIndex(_)
SortIndex(s) ==
  IF s = <<>> THEN <<>> ELSE InsertByKey(Head(s), SortIndex(Tail(s)))

as_time_series(d) ==
  LET stacked == Stack(d)
      bad     == {i \in 1..Len(stacked) :
                    ~IsDate(stacked[i].key[1], stacked[i].key[2], YEAR)}
  IN  IF bad # {}
      THEN [ok |-> FALSE,
            error |-> "ValueError: time data does not match format",
            value |-> <<>>]
      ELSE [ok |-> TRUE, error |-> "none",
            value |-> SortIndex(
              [i \in 1..Len(stacked) |->
                 [key |-> to_datetime(stacked[i].key, YEAR),
                  value |-> stacked[i].value]])]

(***************************************************************************)
(* Aggregates                                                              *)
(***************************************************************************)
\* df.sum(): one total per column, NaN skipped, labelled by the column
ColumnSums(d) ==
  [c \in 1..NCols(d) |->
     [key |-> d.columns[c],
      value |-> SumSeq([r \in 1..NRows(d) |->
                          IF At(d, r, c) = NaN THEN 0 ELSE At(d, r, c)])]]

\* df.sum(axis=1): one total per row, NaN skipped, labelled by the row
RowSums(d) ==
  [r \in 1..NRows(d) |->
     [key |-> d.index[r],
      value |-> SumSeq([c \in 1..NCols(d) |->
                          IF At(d, r, c) = NaN THEN 0 ELSE At(d, r, c)])]]

\* Series.sum(), NaN skipped
SeriesSum(s) ==
  SumSeq([i \in 1..Len(s) |-> IF s[i].value = NaN THEN 0 ELSE s[i].value])

\* df.sum().sum()
GridTotal(d) == SeriesSum(ColumnSums(d))

\* Series.idxmax(): the key of the first largest value (raises on empty)
IdxMax(s) ==
  s[CHOOSE i \in 1..Len(s) :
      /\ \A j \in 1..Len(s) : s[j].value <= s[i].value
      /\ \A j \in 1..(i - 1) : s[j].value < s[i].value].key

\* Series.idxmin(): the key of the first smallest value (raises on empty)
IdxMin(s) ==
  s[CHOOSE i \in 1..Len(s) :
      /\ \A j \in 1..Len(s) : s[j].value >= s[i].value
      /\ \A j \in 1..(i - 1) : s[j].value > s[i].value].key

\* mutant of CumSum: the running total before the entry is added
CumSumExclusive(s) ==
  [i \in 1..Len(s) |->
     [key |-> s[i].key,
      value |-> IF s[i].value = NaN THEN NaN
                ELSE SeriesSum(SubSeq(s, 1, i - 1))]]

\* Series.cumsum(): the running total, entry by entry, same keys; an entry
\* that holds NaN adds nothing and stays NaN
CumSum(s) ==
  [i \in 1..Len(s) |->
     [key |-> s[i].key,
      value |-> IF s[i].value = NaN THEN NaN
                ELSE SeriesSum(SubSeq(s, 1, i))]]

\* mutant of OverGoal: csum[csum >= 10000]
OverGoalInclusive(s) == SelectSeq(s, LAMBDA e : e.value # NaN /\ e.value >= GOAL)

\* csum[csum > 10000]
OverGoal(s) == SelectSeq(s, LAMBDA e : e.value # NaN /\ e.value > GOAL)

\* Series.mean(): the sum over the number of values, kept as the exact
\* fraction sum/count (no value of the table is NaN in the series it is
\* taken of)
Mean(s) == [sum |-> SeriesSum(s), count |-> Len(s)]

\* [c[0] for c in df.columns]: the first character of a label
FirstChar(c) ==
  CASE c \in {"January", "June", "July", "Jan", "Jun", "Jul"} -> "J"
    [] c \in {"February", "Feb"} -> "F"
    [] c \in {"March", "May", "Mar"} -> "M"
    [] c \in {"April", "August", "Apr", "Aug"} -> "A"
    [] c \in {"September", "Sep"} -> "S"
    [] c \in {"October", "Oct"} -> "O"
    [] c \in {"November", "Notes", "Nov"} -> "N"
    [] c \in {"December", "Dec"} -> "D"
    [] c \in {"Total"} -> "T"
    [] c \in {"Extra"} -> "E"
    [] OTHER -> "U"

\* mutant of RelabelColumns: the row labels are reset with the columns
RelabelResetIndex(d) ==
  [d EXCEPT !.columns = [j \in 1..NCols(d) |-> FirstChar(d.columns[j])],
            !.index = PyRange(0, NRows(d))]

\* df.columns = [c[0] for c in df.columns]
RelabelColumns(d) ==
  [d EXCEPT !.columns = [j \in 1..NCols(d) |-> FirstChar(d.columns[j])]]

\* as_time_series(df).to_frame().rename(columns={0: "pushups"}), then the
\* column after_goal: True on the rows whose date is after the cutoff
Partition(s) ==
  [i \in 1..Len(s) |->
     [key |-> s[i].key, pushups |-> s[i].value,
      after_goal |-> DateLess(CUTOFF, s[i].key)]]

(***************************************************************************)
(* The source table, as pd.read_csv returns it                             *)
(***************************************************************************)
\* two headers a source may carry: short month names and trailing extras,
\* or full month names that start at February (the rename is by position,
\* whatever the source calls its columns)
SrcNamesA ==
  <<"Jan", "Feb", "Mar", "Apr", "May", "Jun", "Jul", "Aug", "Sep", "Oct",
    "Nov", "Dec", "Total", "Notes", "Extra">>

SrcNamesB ==
  <<"February", "March", "April", "May", "June", "July", "August",
    "September", "October", "November", "December", "January", "Total",
    "Notes", "Extra">>

\* a layout: k named columns, an unnamed column in front and/or behind,
\* nrows data rows
Layouts ==
  [k : (Len(MONTHS) - 1)..MaxSrcCols, front : BOOLEAN, back : BOOLEAN,
   nrows : (DAYS - 1)..MaxSrcRows, names : {SrcNamesA, SrcNamesB}]

Offset(L) == IF L.front THEN 1 ELSE 0

CsvColumns(L) ==
  (IF L.front THEN <<UnnamedLabels[1]>> ELSE <<>>)
  \o SubSeq(L.names, 1, L.k)
  \o (IF L.back THEN <<UnnamedLabels[Offset(L) + L.k + 1]>> ELSE <<>>)

\* the layout of the table the program was written for: twelve month
\* columns, a trailing column without a header, one row below the days
Canonical(L) ==
  /\ L.k = Len(MONTHS)
  /\ ~L.front
  /\ L.back
  /\ L.nrows = DAYS + 1
  /\ L.names = SrcNamesA

\* the cells <<day, month>> whose value varies; every other cell of the named
\* columns is missing
Probes(L) ==
  IF Canonical(L)
  THEN {<<1, 1>>, <<2, 1>>, <<1, 3>>, <<30, 4>>, <<31, 12>>,
        <<29, 2>>, <<31, 4>>}
  ELSE {<<1, 1>>, <<1, L.k>>}

CellValues == {NaN, 0, 4000, 6000}

\* the table of layout L whose probe cells hold f; the unnamed trailing
\* column holds a note in its first row, and a row below the days holds a
\* value in the first named column
MakeCsv(L, f) ==
  LET ncols   == Len(CsvColumns(L))
      present == {<<p[1], p[2] + Offset(L)>> : p \in {q \in Probes(L) : f[q] # NaN}}
      note    == IF L.back THEN {<<1, ncols>>} ELSE {}
      below   == IF L.nrows > DAYS THEN {<<DAYS + 1, 1 + Offset(L)>>} ELSE {}
  IN  [index   |-> PyRange(0, L.nrows),
       columns |-> CsvColumns(L),
       cells   |-> [p \in present \cup note \cup below |->
                      IF p \in present THEN f[<<p[1], p[2] - Offset(L)>>]
                      ELSE IF p \in note THEN 7 ELSE 9000]]

EmptyFrame == [index |-> <<>>, columns |-> <<>>, cells |-> <<>>]

(***************************************************************************)
(* The run of main()                                                       *)
(***************************************************************************)
Init ==
  /\ \E L \in Layouts : \E f \in [Probes(L) -> CellValues] : csv = MakeCsv(L, f)
  /\ df = EmptyFrame
  /\ ts = <<>>
  /\ total = 0
  /\ perMonth = <<>>
  /\ perDay = <<>>
  /\ progress = <<>>
  /\ csum = <<>>
  /\ goal_date = <<>>
  /\ tsf = <<>>
  /\ pc = "load"
  /\ err = "none"

Raise(e) == pc' = "error" /\ err' = e

\* df = load_data(DATA_PATH)
LoadData ==
  /\ pc = "load"
  /\ LET r == load_data(csv)
     IN  IF r.ok
         THEN /\ df' = r.value
              /\ pc' = "dropna"
              /\ err' = err
         ELSE /\ Raise(r.error)
              /\ df' = df
  /\ UNCHANGED <<csv, ts, total, perMonth, perDay, progress, csum, goal_date, tsf>>

\* .dropna(how="all", axis=1)
DropNa ==
  /\ pc = "dropna"
  /\ df' = DropEmptyColumns(df)
  /\ pc' = "reshape"
  /\ UNCHANGED <<csv, ts, total, perMonth, perDay, progress, csum, goal_date,
                 tsf, err>>

\* ts = as_time_series(df)
Reshape ==
  /\ pc = "reshape"
  /\ LET r == as_time_series(df)
     IN  IF r.ok
         THEN /\ ts' = r.value
              /\ pc' = "header"
              /\ err' = err
         ELSE /\ Raise(r.error)
              /\ ts' = ts
  /\ UNCHANGED <<csv, df, total, perMonth, perDay, progress, csum, goal_date, tsf>>

\* the header: load_lottie (r.raise_for_status()) and the total
Header ==
  /\ pc = "header"
  /\ \E fetched \in BOOLEAN :
       IF fetched
       THEN /\ total' = GridTotal(df)
            /\ pc' = "monthly"
            /\ err' = err
       ELSE /\ Raise("HTTPError")
            /\ total' = total
  /\ UNCHANGED <<csv, df, ts, perMonth, perDay, progress, csum, goal_date, tsf>>

\* push-ups per month: df.sum(), its mean, idxmax, max, idxmin, min
Monthly ==
  /\ pc = "monthly"
  /\ LET sums == ColumnSums(df)
     IN  IF sums = <<>>
         THEN /\ Raise("ValueError: attempt to get argmax of an empty sequence")
              /\ perMonth' = perMonth
         ELSE /\ perMonth' = [sums |-> sums, mean |-> Mean(sums),
                              best |-> IdxMax(sums), worst |-> IdxMin(sums)]
              /\ pc' = "daily"
              /\ err' = err
  /\ UNCHANGED <<csv, df, ts, total, perDay, progress, csum, goal_date, tsf>>

\* push-ups per day of the month: df.sum(axis=1), its mean, ts.idxmax()
Daily ==
  /\ pc = "daily"
  /\ LET sums == RowSums(df)
     IN  IF ts = <<>>
         THEN /\ Raise("ValueError: attempt to get argmax of an empty sequence")
              /\ perDay' = perDay
         ELSE /\ perDay' = [sums |-> sums, mean |-> Mean(sums),
                            best |-> IdxMax(ts)]
              /\ pc' = "progress"
              /\ err' = err
  /\ UNCHANGED <<csv, df, ts, total, perMonth, progress, csum, goal_date, tsf>>

\* progress = ts.to_frame() with the column Expected = 30.0, then cumsum()
Progress ==
  /\ pc = "progress"
  /\ progress' = LET actual == CumSum(ts)
                 IN  [i \in 1..Len(ts) |->
                        [key |-> ts[i].key, Actual |-> actual[i].value,
                         Expected |-> EXPECTED * i]]
  /\ pc' = "goal"
  /\ UNCHANGED <<csv, df, ts, total, perMonth, perDay, csum, goal_date, tsf, err>>

\* csum = ts.cumsum(); goal_date = csum[csum > 10000].idxmin().strftime(...)
Goal ==
  /\ pc = "goal"
  /\ csum' = CumSum(ts)
  /\ LET over == OverGoal(csum')
     IN  IF over = <<>>
         THEN /\ Raise("ValueError: attempt to get argmin of an empty sequence")
              /\ goal_date' = goal_date
         ELSE /\ goal_date' = Strftime(IdxMin(over))
              /\ pc' = "partition"
              /\ err' = err
  /\ UNCHANGED <<csv, df, ts, total, perMonth, perDay, progress, tsf>>

\* ts = as_time_series(df).to_frame()...; ts["after_goal"]: the name ts is
\* bound to a new frame (tsf); the series it named is not written to
AfterGoal ==
  /\ pc = "partition"
  /\ LET r == as_time_series(df)
     IN  IF r.ok
         THEN /\ tsf' = Partition(r.value)
              /\ pc' = "rawdata"
              /\ err' = err
         ELSE /\ Raise(r.error)
              /\ tsf' = tsf
  /\ UNCHANGED <<csv, df, ts, total, perMonth, perDay, progress, csum, goal_date>>

\* the footer: df.columns = [c[0] for c in df.columns], then the heatmap
RawData ==
  /\ pc = "rawdata"
  /\ df' = RelabelColumns(df)
  /\ pc' = "done"
  /\ UNCHANGED <<csv, ts, total, perMonth, perDay, progress, csum, goal_date,
                 tsf, err>>

Next ==
  \/ LoadData
  \/ DropNa
  \/ Reshape
  \/ Header
  \/ Monthly
  \/ Daily
  \/ Progress
  \/ Goal
  \/ AfterGoal
  \/ RawData

Spec == Init /\ [][Next]_vars

(***************************************************************************)
(* Vocabulary of the properties                                            *)
(***************************************************************************)
LengthMismatch == "ValueError: Length mismatch"

NotADate == "ValueError: time data does not match format"

EmptyArgmin == "ValueError: attempt to get argmin of an empty sequence"

\* load_data has returned or raised
LoadReturned == pc # "load"

\* the call ts = as_time_series(df) of main has returned or raised
ReshapeReturned ==
  /\ pc \notin {"load", "dropna", "reshape"}
  /\ ~(pc = "error" /\ err = LengthMismatch)

\* the call has returned a Time Series and the Grid still bears its month
\* labels
Reshaped ==
  pc \in {"header", "monthly", "daily", "progress", "goal", "partition",
          "rawdata"}

\* the goal-crossing computation has ended, one way or the other
GoalReturned ==
  \/ pc \in {"partition", "rawdata", "done"}
  \/ pc = "error" /\ err = EmptyArgmin

AllMonthColumns(d) == \A c \in 1..NCols(d) : MonthNumber(d.columns[c]) # 0

PresentCells(d) ==
  {p \in (1..NRows(d)) \X (1..NCols(d)) : At(d, p[1], p[2]) # NaN}

ValidCells(d) ==
  {p \in (1..NRows(d)) \X (1..NCols(d)) :
     IsDate(d.index[p[1]], d.columns[p[2]], YEAR)}

DateOf(d, p) == to_datetime(<<d.index[p[1]], d.columns[p[2]]>>, YEAR)

HasEntry(series, d, p) ==
  \E i \in 1..Len(series) :
    series[i].key = DateOf(d, p) /\ series[i].value = At(d, p[1], p[2])

\* the sum of the first i values of a series, computed from the values
RECURSIVE PrefixSum(_, _)
PrefixSum(series, i) ==
  IF i = 0 THEN 0 ELSE PrefixSum(series, i - 1) + series[i].value

NamedColumns(source) ==
  SelectSeq(source.columns,
            LAMBDA c : \A i \in DOMAIN UnnamedLabels : UnnamedLabels[i] # c)

(***************************************************************************)
(* C1                                                                      *)
(***************************************************************************)
\* C1: reshaping a Grid that holds a value in a cell on an invalid date of
\* 2021 (29-31 February, 31 April, ...) completes without an error and
\* returns a Time Series with one entry per present cell on a valid date and
\* none for the cell on the invalid date.
C1_InvalidCellDiscarded ==
  (/\ ReshapeReturned
   /\ AllMonthColumns(df)
   /\ PresentCells(df) \ ValidCells(df) # {})
  => /\ err # NotADate
     /\ \A p \in PresentCells(df) \cap ValidCells(df) : HasEntry(ts, df, p)
     /\ Len(ts) = Cardinality(PresentCells(df) \cap ValidCells(df))

(***************************************************************************)
(* C2                                                                      *)
(***************************************************************************)
\* C2: the goal date main reports is the date of the earliest entry whose
\* cumulative sum is strictly greater than 10000: the sum up to every
\* earlier entry is at most 10000 (an entry where it is exactly 10000, or
\* that adds zero to it, is not reported).
C2_EarliestStrictlyOver ==
  goal_date # <<>> =>
    \E i \in 1..Len(ts) :
      /\ goal_date = Strftime(ts[i].key)
      /\ PrefixSum(ts, i) > GOAL
      /\ \A j \in 1..(i - 1) : PrefixSum(ts, j) <= GOAL

\* a goal date was reported although the cumulative sum stood at exactly
\* 10000 at two earlier entries (the second of them adding zero)
C2_Witness ==
  /\ goal_date # <<>>
  /\ \E j \in 1..Len(ts) : \E k \in 1..Len(ts) :
       /\ j < k
       /\ PrefixSum(ts, j) = GOAL
       /\ PrefixSum(ts, k) = GOAL
       /\ ts[k].value = 0

(***************************************************************************)
(* C3                                                                      *)
(***************************************************************************)
\* C3: when the cumulative sum never exceeds 10000, the goal-crossing
\* computation ends without an error and reports no date.
C3_NotReachedIsNoError ==
  (GoalReturned /\ SeriesSum(ts) <= GOAL)
  => (pc # "error" /\ goal_date = <<>>)

(***************************************************************************)
(* C4                                                                      *)
(***************************************************************************)
\* C4: the Time Series as_time_series returns is strictly ascending by
\* date: every entry's date is later than the date of the entry before it
\* (so no date occurs twice), in the series of the statistics and in the
\* frame of the partition.
C4_StrictlyAscending ==
  /\ \A i \in 1..(Len(ts) - 1) : DateLess(ts[i].key, ts[i + 1].key)
  /\ \A i \in 1..(Len(tsf) - 1) : DateLess(tsf[i].key, tsf[i + 1].key)

\* a Time Series was returned for a Grid whose row-major order is not the
\* order of the calendar
C4_Witness ==
  /\ Reshaped
  /\ Len(ts) >= 3
  /\ \E p \in PresentCells(df) : \E q \in PresentCells(df) :
       /\ p[1] < q[1]
       /\ DateLess(DateOf(df, q), DateOf(df, p))

(***************************************************************************)
(* C5                                                                      *)
(***************************************************************************)
\* C5: for every Grid, also one that holds values on invalid dates, the
\* values of the Time Series of as_time_series add up to the grand total of
\* the Grid (df.sum().sum()).
C5_SeriesSumIsGridTotal ==
  (ReshapeReturned /\ AllMonthColumns(df))
  => (err # NotADate /\ SeriesSum(ts) = GridTotal(df))

(***************************************************************************)
(* C6                                                                      *)
(***************************************************************************)
\* C6: the cumulative sum over the Time Series never decreases from one
\* entry to the next, has one entry per present cell of the Grid (a missing
\* cell adds no entry), and its last value is the grand total of the Grid;
\* so for the column Actual of the progress frame as for csum.
C6_CumSumMonotoneToTotal ==
  /\ csum # <<>> =>
       /\ \A i \in 1..(Len(csum) - 1) : csum[i].value <= csum[i + 1].value
       /\ Len(csum) = Cardinality(PresentCells(df))
       /\ csum[Len(csum)].value = GridTotal(df)
  /\ progress # <<>> =>
       /\ \A i \in 1..(Len(progress) - 1) :
            progress[i].Actual <= progress[i + 1].Actual
       /\ Len(progress) = Cardinality(PresentCells(df))
       /\ progress[Len(progress)].Actual = GridTotal(df)

\* the cumulative sum was computed over a series with an entry that adds
\* zero and a positive last entry, from a Grid with missing cells
C6_Witness ==
  /\ Len(csum) >= 3
  /\ \E i \in 2..Len(csum) : csum[i].value = csum[i - 1].value
  /\ ts[Len(ts)].value > 0
  /\ PresentCells(df) # (1..NRows(df)) \X (1..NCols(df))

(***************************************************************************)
(* C7                                                                      *)
(***************************************************************************)
\* C7 as stated: load_data on a source of n < 31 rows raises no error and
\* returns a Grid of those n rows, labelled 1..n.
C7_ShortSourceLoads ==
  (LoadReturned /\ NRows(csv) < DAYS)
  => (pc # "error" /\ df.index = PyRange(1, NRows(csv) + 1))

\* C7 as amended: load_data on a source of n < 31 rows raises (the 31 row
\* labels 1..31 do not fit n rows) and returns no Grid; on a source of 31
\* rows or more it does not raise and returns a Grid of exactly 31 rows
\* labelled 1..31.
C7_ShortSourceRaises ==
  LoadReturned =>
    IF NRows(csv) < DAYS
    THEN pc = "error" /\ err = LengthMismatch /\ df = EmptyFrame
    ELSE err # LengthMismatch /\ df.index = PyRange(1, DAYS + 1)

\* load_data was applied to a source of fewer than 31 rows
C7_Witness == LoadReturned /\ NRows(csv) < DAYS

(***************************************************************************)
(* C8                                                                      *)
(***************************************************************************)
\* C8 as stated: the Time Series has an entry for every (day, month) pair of
\* the Grid that is a valid date, missing cells included.
C8_EveryValidCellHasEntry ==
  Reshaped => Len(ts) = Cardinality(ValidCells(df))

\* C8 as amended: the flattening drops the missing cells: the Time Series
\* has an entry exactly for each present cell of the Grid, at the cell's
\* date and with its value, and no entry holds a missing value; its length
\* is the number of present cells, not the number of valid dates.
C8_PresentCellsOnly ==
  Reshaped =>
    /\ \A i \in 1..Len(ts) : ts[i].value # NaN
    /\ \A p \in PresentCells(df) : HasEntry(ts, df, p)
    /\ Len(ts) = Cardinality(PresentCells(df))

\* a Time Series was returned for a Grid with a missing cell on a valid date
C8_Witness ==
  /\ Reshaped
  /\ Len(ts) >= 2
  /\ ValidCells(df) \ PresentCells(df) # {}

(***************************************************************************)
(* C9                                                                      *)
(***************************************************************************)
\* C9: the Grid load_data returns has the columns of the source that are
\* not "Unnamed:", in source order and with their cells; the j-th of them is
\* labelled with the j-th month name for j <= 12 and keeps its source name
\* for j > 12; fewer than 12 columns raise no error.
C9_PositionalRename ==
  LET named == NamedColumns(csv)
      at    == [j \in 1..Len(named) |->
                  CHOOSE c \in 1..NCols(csv) : csv.columns[c] = named[j]]
  IN  /\ pc = "dropna" =>
           /\ NCols(df) = Len(named)
           /\ \A j \in 1..NCols(df) :
                /\ df.columns[j] =
                     IF j <= Len(MONTHS) THEN MONTHS[j] ELSE named[j]
                /\ \A r \in 1..NRows(df) : At(df, r, j) = At(csv, r, at[j])
      /\ (LoadReturned /\ NRows(csv) >= DAYS) => err # LengthMismatch

\* load_data returned a Grid for a source with an unnamed column in front
\* and more than twelve named columns
C9_Witness ==
  /\ pc = "dropna"
  /\ NCols(df) > Len(MONTHS)
  /\ csv.columns[1] = UnnamedLabels[1]

\* load_data returned a Grid for a source with fewer than twelve named
\* columns
C9_FewColumns == pc = "dropna" /\ NCols(df) < Len(MONTHS)

(***************************************************************************)
(* C10                                                                     *)
(***************************************************************************)
\* C10 as stated: once the Grid is loaded no later step changes it, and no
\* step changes the Time Series of the statistics once it is made.
C10_NothingMutated ==
  [][/\ pc \notin {"load", "dropna"} => df' = df
     /\ pc \notin {"load", "dropna", "reshape"} => ts' = ts]_vars

\* C10 as amended: once the Grid is loaded no later step changes its row
\* labels or its cell values, and its column labels change in one step only:
\* the footer replaces each label by its first letter; no step changes the
\* Time Series of the statistics once it is made.
C10_OnlyFooterRelabels ==
  [][/\ pc \notin {"load", "dropna"} =>
          /\ df'.index = df.index
          /\ df'.cells = df.cells
          /\ \/ df'.columns = df.columns
             \/ /\ pc = "rawdata"
                /\ df'.columns =
                     [j \in 1..NCols(df) |-> FirstChar(df.columns[j])]
     /\ pc \notin {"load", "dropna", "reshape"} => ts' = ts]_vars

\* the footer has relabelled the columns of a Grid
C10_Witness == pc = "done" /\ NCols(df) >= 2 /\ df.columns[1] = "J"

====
